---- MODULE Spec2Model ----
(***************************************************************************)
(* Gauss-Newton least-squares iteration of optimistix                      *)
(* (optimistix/_solver/gauss_newton.py): NewtonDescent, the                *)
(* _GaussNewtonState record, AbstractGaussNewton.init / step / terminate   *)
(* and the GaussNewton configuration, driven by the iterate loop           *)
(* "init once, then step while terminate is not done".                     *)
(*                                                                         *)
(* Numbers are fixed-point: the integer n stands for the real n / Den.     *)
(* Products and quotients round down to the next unit.  The tolerances     *)
(* rtol and atol are exact rationals (rnum / den, anum / den).  The IEEE   *)
(* values +inf, -inf and nan are three sentinels with their arithmetic.    *)
(* PyTrees are flat vectors (sequences); operators are diagonal.           *)
(***************************************************************************)
EXTENDS Integers, Sequences, FiniteSets, TLC

VARIABLES solver, fn, args, y0, y, state, aux, pc, nsteps, fn_evals,
          y_in, state_in, ls_opts, line_sol, term, desc_call

vars == <<solver, fn, args, y0, y, state, aux, pc, nsteps, fn_evals,
          y_in, state_in, ls_opts, line_sol, term, desc_call>>

(* ------------------------------ bounds --------------------------------- *)

\* the driver's step budget (max_steps of the iterate loop)
MaxSteps == 4

\* how many times the backtracking line search may halve the step size
MaxHalvings == 1

(* --------------------------- number model ------------------------------ *)

Den == 2^8

Inf == 2^30

NInf == -(2^30)

NaN == 2^30 + 1

IsNum(a) == a # Inf /\ a # NInf /\ a # NaN

FAbs(a) == IF a = NaN THEN NaN
           ELSE IF a = Inf \/ a = NInf THEN Inf
           ELSE IF a < 0 THEN -a ELSE a

FNeg(a) == IF a = NaN THEN NaN
           ELSE IF a = Inf THEN NInf
           ELSE IF a = NInf THEN Inf
           ELSE -a

FAdd(a, b) == IF a = NaN \/ b = NaN THEN NaN
              ELSE IF (a = Inf /\ b = NInf) \/ (a = NInf /\ b = Inf) THEN NaN
              ELSE IF a = Inf \/ b = Inf THEN Inf
              ELSE IF a = NInf \/ b = NInf THEN NInf
              ELSE a + b

FSub(a, b) == FAdd(a, FNeg(b))

\* fixed-point product of two finite numbers, or of a finite number and a sentinel
FMul(a, b) == IF a = NaN \/ b = NaN THEN NaN
              ELSE IF ~IsNum(a) \/ ~IsNum(b)
                   THEN IF a = 0 \/ b = 0 THEN NaN
                        ELSE IF (a > 0) = (b > 0) THEN Inf ELSE NInf
              ELSE (a * b) \div Den

\* fixed-point quotient a / b of finite numbers; x/0 is +-inf, 0/0 is nan
FDiv(a, b) == IF ~IsNum(a) \/ ~IsNum(b) THEN NaN
              ELSE IF b = 0
                   THEN IF a = 0 THEN NaN ELSE IF a > 0 THEN Inf ELSE NInf
              ELSE (a * Den) \div b

VSub(u, v) == [i \in 1..Len(u) |-> FSub(u[i], v[i])]

VAdd(u, v) == [i \in 1..Len(u) |-> FAdd(u[i], v[i])]

VScale(s, v) == [i \in 1..Len(v) |-> FMul(s, v[i])]

Zeros(v) == [i \in 1..Len(v) |-> 0]

RECURSIVE SumSq(_, _)
SumSq(v, n) == IF n = 0 THEN 0 ELSE FAdd(SumSq(v, n - 1), FMul(v[n], v[n]))

sum_squares(residual) == SumSq(residual, Len(residual))

RECURSIVE MaxAbs(_, _)
MaxAbs(v, n) == IF n = 0 THEN 0
                ELSE LET m == MaxAbs(v, n - 1)
                         a == FAbs(v[n])
                     IN  IF m = NaN \/ a = NaN THEN NaN
                         ELSE IF a = Inf \/ m = Inf THEN Inf
                         ELSE IF a > m THEN a ELSE m

max_norm(v) == MaxAbs(v, Len(v))

tree_full_like(v, c) == [i \in 1..Len(v) |-> c]

(* ------------------------------ RESULTS -------------------------------- *)

LxRESULTS == {"successful", "max_steps_reached", "singular", "breakdown"}

RESULTS == LxRESULTS \cup {"nonlinear_max_steps_reached", "nonlinear_divergence"}

\* RESULTS.promote: a linear-solve status as the same member of RESULTS
promote(r) == CHOOSE s \in RESULTS : s = r

\* RESULTS.where(pred, a, b)
where(pred, a, b) == IF pred THEN a ELSE b

(* ------------------------- residual functions -------------------------- *)

\* fn(y, args) -> (residual, aux).  "linear": y - args; "square": y * y.
\* aux marks the point at which fn produced it.
fn_residual(f, yy, aa) ==
    IF f = "linear" THEN VSub(yy, aa)
    ELSE [i \in 1..Len(yy) |-> FMul(yy[i], yy[i])]

fn_aux(f, yy, aa) == [at |-> yy]

\* the Jacobian of fn at yy, as the diagonal of a linear operator
fn_jac(f, yy, aa) ==
    IF f = "linear" THEN [i \in 1..Len(yy) |-> Den]
    ELSE [i \in 1..Len(yy) |-> 2 * yy[i]]

\* jax.linearize(lambda _y: fn(_y, args), y, has_aux=True)
linearize(f, yy, aa) ==
    [residual |-> fn_residual(f, yy, aa),
     lin_fn   |-> fn_jac(f, yy, aa),
     aux      |-> fn_aux(f, yy, aa)]

(* --------------------------- linear algebra ---------------------------- *)

\* lx.linear_solve(operator, vector, solver) for a diagonal operator.  A
\* full-rank operator is solved exactly; on a singular one the "pinv" solver
\* returns the minimum-norm solution and the "strict" solver reports
\* singular with a nan value.
linear_solve(operator, vector, linear_solver) ==
    IF \A i \in 1..Len(operator) : operator[i] # 0
    THEN [value  |-> [i \in 1..Len(vector) |-> FDiv(vector[i], operator[i])],
          result |-> "successful"]
    ELSE IF linear_solver = "pinv"
    THEN [value  |-> [i \in 1..Len(vector) |->
                         IF operator[i] = 0 THEN 0
                         ELSE FDiv(vector[i], operator[i])],
          result |-> "successful"]
    ELSE [value  |-> tree_full_like(vector, NaN),
          result |-> "singular"]

\* operator_inv.mv(vector)
mv(operator_inv, vector) ==
    [i \in 1..Len(vector) |-> FMul(operator_inv[i], vector[i])]

(* ---------------------------- NewtonDescent ---------------------------- *)

Absent == [tag |-> "absent", val |-> <<>>]

None == [tag |-> "none", val |-> <<>>]

Some(v) == [tag |-> "some", val |-> v]

\* try: options[key] except KeyError: None
OptGet(opt) == IF opt.tag = "absent" THEN None ELSE opt

NoValue == <<>>

\* NewtonDescent.__call__ with operator tested before operator_inv
NewtonDescent_mutC7(norm, linear_solver, step_size, options) ==
    LET vector       == options.vector
        operator_inv == OptGet(options.operator_inv)
        operator     == OptGet(options.operator)
        useOp  == operator.tag # "none"
        useInv == ~useOp /\ operator_inv.tag # "none"
        out == IF useOp
               THEN linear_solve(operator.val, vector.val, linear_solver)
               ELSE [value |-> mv(operator_inv.val, vector.val),
                     result |-> "successful"]
        newton == out.value
        result == IF useInv THEN "successful" ELSE promote(out.result)
        diff == IF norm = "none" THEN newton
                ELSE [i \in 1..Len(newton) |-> FDiv(newton[i], max_norm(newton))]
    IN  IF vector.tag = "absent"
        THEN [raised |-> "KeyError", value |-> NoValue, result |-> "none",
              solved |-> FALSE]
        ELSE IF ~useInv /\ ~useOp
        THEN [raised |-> "ValueError", value |-> NoValue, result |-> "none",
              solved |-> FALSE]
        ELSE [raised |-> "none",
              value  |-> VScale(FNeg(step_size), diff),
              result |-> result,
              solved |-> useOp]

\* NewtonDescent(norm, linear_solver).__call__(step_size, args, options)
NewtonDescent(norm, linear_solver, step_size, options) ==
    LET vector       == options.vector
        operator_inv == OptGet(options.operator_inv)
        operator     == OptGet(options.operator)
        useInv == operator_inv.tag # "none"
        useOp  == ~useInv /\ operator.tag # "none"
        out == IF useOp
               THEN linear_solve(operator.val, vector.val, linear_solver)
               ELSE [value |-> mv(operator_inv.val, vector.val),
                     result |-> "successful"]
        newton == out.value
        result == IF useInv THEN "successful" ELSE promote(out.result)
        diff == IF norm = "none" THEN newton
                ELSE [i \in 1..Len(newton) |-> FDiv(newton[i], max_norm(newton))]
    IN  IF vector.tag = "absent"
        THEN [raised |-> "KeyError", value |-> NoValue, result |-> "none",
              solved |-> FALSE]
        ELSE IF ~useInv /\ ~useOp
        THEN [raised |-> "ValueError", value |-> NoValue, result |-> "none",
              solved |-> FALSE]
        ELSE [raised |-> "none",
              value  |-> VScale(FNeg(step_size), diff),
              result |-> result,
              solved |-> useOp]

(* ----------------------------- line search ----------------------------- *)

\* the step sizes a backtracking search may settle on, starting from s0
TrialSizes(s0) == {s0 \div (2^k) : k \in 0..MaxHalvings}

\* _line_search_fn(fn, y, args) -> (sum_squares(residual), aux)
line_search_fn(f, yy, aa) ==
    [f_val |-> sum_squares(fn_residual(f, yy, aa)), aux |-> fn_aux(f, yy, aa)]

\* line_search(fn, solver, y, args, options, has_aux=True, throw=False): the
\* set of solutions the search may return.  Every solution carries the
\* accepted point, the status, the recommended next initial step size and the
\* aux of the objective at the accepted point.
\*   "LearningRate": LearningRate(1.0), one full descent step.
\*   "Backtracking": settles on the initial step size or a halving of it and
\*   recommends the size it settled on for the next search; having halved as
\*   often as it may, it can end on its own step budget.
line_search(search, f, yy, aa, options, linear_solver) ==
    LET opts == [vector |-> Some(options.vector),
                 operator |-> Some(options.operator),
                 operator_inv |-> options.operator_inv]
        sol(s, nxt, res, n) ==
            LET d == NewtonDescent("none", linear_solver, s, opts)
                value == VAdd(yy, d.value)
            IN  [value     |-> value,
                 result    |-> IF d.result # "successful" THEN d.result ELSE res,
                 next_init |-> nxt,
                 aux       |-> line_search_fn(f, value, aa).aux,
                 raised    |-> d.raised,
                 evals     |-> n]
        smallest == options.init_step_size \div (2^MaxHalvings)
    IN  IF search = "LearningRate"
        THEN {sol(Den, Den, "successful", 1)}
        ELSE {sol(s, s, "successful", 1) :
                 s \in TrialSizes(options.init_step_size)}
             \cup {sol(smallest, smallest, "nonlinear_max_steps_reached", 1)}

(* ------------------------- AbstractGaussNewton ------------------------- *)

\* init with a zero diff
init_mutC8(yy) ==
    [step_size |-> Den,
     diff      |-> Zeros(yy),
     f_val     |-> Inf,
     f_prev    |-> Inf,
     result    |-> "successful"]

\* init with f_val = 0
init_mutC10(yy) ==
    [step_size |-> Den,
     diff      |-> tree_full_like(yy, Inf),
     f_val     |-> 0,
     f_prev    |-> Inf,
     result    |-> "successful"]

\* AbstractGaussNewton.init
init(yy) ==
    [step_size |-> Den,
     diff      |-> tree_full_like(yy, Inf),
     f_val     |-> Inf,
     f_prev    |-> Inf,
     result    |-> "successful"]

\* the options without the warm start of the step size
line_search_options_mutC9(st, lin, f_val) ==
    [init_step_size |-> Den,
     vector         |-> lin.residual,
     operator       |-> lin.lin_fn,
     operator_inv   |-> None,
     f0             |-> f_val,
     aux            |-> lin.aux]

\* the options step hands to the line search
line_search_options(st, lin, f_val) ==
    [init_step_size |-> st.step_size,
     vector         |-> lin.residual,
     operator       |-> lin.lin_fn,
     operator_inv   |-> None,
     f0             |-> f_val,
     aux            |-> lin.aux]

\* the solutions the line search of step may return at (yy, st)
LineSols(sv, f, yy, aa, st) ==
    LET lin == linearize(f, yy, aa)
    IN  line_search(sv.line_search, f, yy, aa,
                    line_search_options(st, lin, sum_squares(lin.residual)),
                    sv.linear_solver)

\* step keeping the stale f_prev
step_mutC2(f, yy, aa, st, sol) ==
    LET lin    == linearize(f, yy, aa)
        f_val  == sum_squares(lin.residual)
        new_y  == sol.value
        result == where(sol.result = "nonlinear_max_steps_reached",
                        "successful", sol.result)
    IN  [new_y     |-> new_y,
         new_state |-> [step_size |-> sol.next_init,
                        diff      |-> VSub(new_y, yy),
                        f_val     |-> f_val,
                        f_prev    |-> st.f_prev,
                        result    |-> result],
         aux       |-> lin.aux]

\* step storing new_y as diff
step_mutC3(f, yy, aa, st, sol) ==
    LET lin    == linearize(f, yy, aa)
        f_val  == sum_squares(lin.residual)
        new_y  == sol.value
        result == where(sol.result = "nonlinear_max_steps_reached",
                        "successful", sol.result)
    IN  [new_y     |-> new_y,
         new_state |-> [step_size |-> sol.next_init,
                        diff      |-> new_y,
                        f_val     |-> f_val,
                        f_prev    |-> st.f_val,
                        result    |-> result],
         aux       |-> lin.aux]

\* step without the downgrade of nonlinear_max_steps_reached
step_mutC5(f, yy, aa, st, sol) ==
    LET lin    == linearize(f, yy, aa)
        f_val  == sum_squares(lin.residual)
        new_y  == sol.value
    IN  [new_y     |-> new_y,
         new_state |-> [step_size |-> sol.next_init,
                        diff      |-> VSub(new_y, yy),
                        f_val     |-> f_val,
                        f_prev    |-> st.f_val,
                        result    |-> sol.result],
         aux       |-> lin.aux]

\* step storing the objective at new_y as f_val
step_mutC1(f, yy, aa, st, sol) ==
    LET lin    == linearize(f, yy, aa)
        new_y  == sol.value
        f_val  == sum_squares(fn_residual(f, new_y, aa))
        result == where(sol.result = "nonlinear_max_steps_reached",
                        "successful", sol.result)
    IN  [new_y     |-> new_y,
         new_state |-> [step_size |-> sol.next_init,
                        diff      |-> VSub(new_y, yy),
                        f_val     |-> f_val,
                        f_prev    |-> st.f_val,
                        result    |-> result],
         aux       |-> lin.aux]

\* AbstractGaussNewton.step, given the solution sol of its line search
step(f, yy, aa, st, sol) ==
    LET lin    == linearize(f, yy, aa)
        f_val  == sum_squares(lin.residual)
        new_y  == sol.value
        result == where(sol.result = "nonlinear_max_steps_reached",
                        "successful", sol.result)
    IN  [new_y     |-> new_y,
         new_state |-> [step_size |-> sol.next_init,
                        diff      |-> VSub(new_y, yy),
                        f_val     |-> f_val,
                        f_prev    |-> st.f_val,
                        result    |-> result],
         aux       |-> lin.aux]

\* |d| / (atol + rtol * |ref|) < 1, with the tolerances exact
Small(tol, d, ref) ==
    LET a == FAbs(d)
        r == FAbs(ref)
    IN  IF a = NaN \/ r = NaN \/ a = Inf THEN FALSE
        ELSE IF r = Inf THEN tol.rnum > 0
        ELSE LET scale == tol.anum * Den + tol.rnum * r
             IN  scale > 0 /\ a <= (scale - 1) \div tol.den

\* cauchy_termination(rtol, atol, norm, y, diff, f_val, f_prev, result) with
\* norm = max_norm
cauchy_termination(tol, yy, diff, f_val, f_prev, result) ==
    LET y_converged == \A i \in 1..Len(yy) : Small(tol, diff[i], yy[i])
        f_converged == Small(tol, FSub(f_val, f_prev), f_val)
    IN  [done   |-> (result # "successful") \/ (y_converged /\ f_converged),
         result |-> result]

\* terminate dropping the state's result
terminate_mutC6(sv, yy, st) ==
    cauchy_termination(sv.tol, yy, st.diff, st.f_val, st.f_prev, "successful")

\* AbstractGaussNewton.terminate
terminate(sv, yy, st) ==
    cauchy_termination(sv.tol, yy, st.diff, st.f_val, st.f_prev, st.result)

(* ------------------------------- inputs -------------------------------- *)

\* GaussNewton(rtol, atol, linear_solver=...), and the same iteration with a
\* backtracking line search in place of LearningRate(1.0)
Tols == {[rnum |-> 1, anum |-> 1, den |-> 1000000],
         [rnum |-> 0, anum |-> 1, den |-> 5],
         [rnum |-> 1, anum |-> 0, den |-> 1000]}

Solvers == [tol : Tols,
            line_search : {"LearningRate", "Backtracking"},
            linear_solver : {"pinv", "strict"}]

Problems ==
    {[fn |-> "linear", args |-> <<Den, 2 * Den, 3 * Den>>, y0 |-> p0] :
        p0 \in {<<0, 0, 0>>, <<Den, 2 * Den, 3 * Den>>, <<Den, 0, 3 * Den>>}}
    \cup
    {[fn |-> "linear", args |-> <<2 * Den>>, y0 |-> p0] :
        p0 \in {<<0>>, <<2 * Den>>}}
    \cup
    {[fn |-> "square", args |-> <<>>, y0 |-> p0] :
        p0 \in {<<Den>>, <<0>>, <<-Den, Den \div 2>>}}

NoState == [step_size |-> 0, diff |-> <<>>, f_val |-> 0, f_prev |-> 0,
            result |-> "successful"]

NoOpts == [init_step_size |-> 0, vector |-> <<>>, operator |-> <<>>,
           operator_inv |-> None, f0 |-> 0, aux |-> [at |-> <<>>]]

NoSol == [value |-> <<>>, result |-> "successful", next_init |-> 0,
          aux |-> [at |-> <<>>], raised |-> "none", evals |-> 0]

NoCall == [norm |-> "none", step_size |-> 0,
           options |-> [vector |-> Absent, operator |-> Absent,
                        operator_inv |-> Absent],
           out |-> [raised |-> "none", value |-> NoValue, result |-> "none",
                    solved |-> FALSE],
           called |-> FALSE]

(* ---------------------------- specification ---------------------------- *)

Init ==
    /\ solver \in Solvers
    /\ \E p \in Problems : fn = p.fn /\ args = p.args /\ y0 = p.y0 /\ y = p.y0
    /\ state = NoState
    /\ aux = [at |-> <<>>]
    /\ pc = "constructed"
    /\ nsteps = 0
    /\ fn_evals = 0
    /\ y_in = <<>>
    /\ state_in = NoState
    /\ ls_opts = NoOpts
    /\ line_sol = NoSol
    /\ term = [done |-> FALSE, result |-> "successful"]
    /\ desc_call = NoCall

\* the driver calls solver.init(fn, y, args, ...)
InitA ==
    /\ pc = "constructed"
    /\ state' = init(y)
    /\ pc' = "cond"
    /\ UNCHANGED <<solver, fn, args, y0, y, aux, nsteps, fn_evals, y_in, state_in,
                   ls_opts, line_sol, term, desc_call>>

\* the driver's loop condition: solver.terminate(fn, y, args, ..., state)
TerminateA ==
    /\ pc = "cond"
    /\ term' = terminate(solver, y, state)
    /\ pc' = IF term'.done THEN "done" ELSE "body"
    /\ UNCHANGED <<solver, fn, args, y0, y, state, aux, nsteps, fn_evals, y_in,
                   state_in, ls_opts, line_sol, desc_call>>

\* the driver's loop body: solver.step(fn, y, args, ..., state)
StepA ==
    /\ pc = "body"
    /\ nsteps < MaxSteps
    /\ \E sol \in LineSols(solver, fn, y, args, state) :
          LET lin == linearize(fn, y, args)
              out == step(fn, y, args, state, sol)
          IN  /\ y' = out.new_y
              /\ state' = out.new_state
              /\ aux' = out.aux
              /\ line_sol' = sol
              /\ ls_opts' = line_search_options(state, lin,
                                                sum_squares(lin.residual))
              /\ fn_evals' = fn_evals + 1 + sol.evals
    /\ y_in' = y
    /\ state_in' = state
    /\ nsteps' = nsteps + 1
    /\ pc' = "cond"
    /\ UNCHANGED <<solver, fn, args, y0, term, desc_call>>

Next == InitA \/ TerminateA \/ StepA

Spec == Init /\ [][Next]_vars

\* a direct call of the solver's descent, NewtonDescent(norm, linear_solver),
\* with options of the caller's choosing
DescentVectors == {Absent, Some(<<Den>>), Some(<<-3 * Den>>)}

DescentOperators == {Absent, None, Some(<<2 * Den>>), Some(<<0>>)}

DescentInverses == {Absent, None, Some(<<Den \div 2>>)}

DescentA ==
    \E norm \in {"none", "max_norm"}, s \in TrialSizes(Den),
       v \in DescentVectors, op \in DescentOperators, inv \in DescentInverses :
        LET options == [vector |-> v, operator |-> op, operator_inv |-> inv]
        IN  /\ desc_call' = [norm |-> norm, step_size |-> s, options |-> options,
                             out |-> NewtonDescent(norm, solver.linear_solver,
                                                   s, options),
                             called |-> TRUE]
            /\ UNCHANGED <<solver, fn, args, y0, y, state, aux, pc, nsteps, fn_evals,
                           y_in, state_in, ls_opts, line_sol, term>>

NextDescent == DescentA

SpecDescent == Init /\ [][NextDescent]_vars

(* ------------------------------- claims -------------------------------- *)

\* terminate has been evaluated on the state produced by the n-th step
Judged(n) == nsteps = n /\ pc \in {"body", "done"}

AllZero(v) == \A i \in 1..Len(v) : v[i] = 0

\* the end-to-end scenario: GaussNewton(rtol=1e-6, atol=1e-6), full-step line
\* search, fn(y) = y - [1,2,3], y0 = [0,0,0]
Scenario ==
    /\ fn = "linear"
    /\ args = <<Den, 2 * Den, 3 * Den>>
    /\ y0 = <<0, 0, 0>>
    /\ solver.tol = [rnum |-> 1, anum |-> 1, den |-> 1000000]
    /\ solver.line_search = "LearningRate"

\* C1 as stated: in the end-to-end scenario terminate reports done after at
\* most 2 calls to step, with y = [1,2,3] and status successful.
C1_AsStated ==
    Scenario =>
        /\ pc = "body" => nsteps < 2
        /\ pc = "done" => /\ nsteps <= 2
                          /\ y = args
                          /\ term.result = "successful"

\* C1 (amended): in the end-to-end scenario terminate reports done after
\* exactly 3 calls to step (not done after 0, 1 and 2 calls), with
\* y = [1,2,3] and status successful.
C1_DoneAfterThreeSteps ==
    Scenario =>
        /\ pc = "body" => nsteps < 3
        /\ pc = "done" => /\ nsteps = 3
                          /\ y = args
                          /\ term = [done |-> TRUE, result |-> "successful"]

C1_Witness == Scenario /\ pc = "done" /\ nsteps = 3

ZeroAtY0 == AllZero(fn_residual(fn, y0, args))

\* C2 as stated: if the residual is exactly zero at y0, terminate reports
\* done on the state of the first step, which has f_val = f_prev = 0 and a
\* zero diff.
C2_AsStated ==
    (ZeroAtY0 /\ Judged(1)) =>
        /\ term.done
        /\ state.f_val = 0
        /\ state.f_prev = 0
        /\ AllZero(state.diff)

\* C2 (amended): if the residual is exactly zero at y0, the state of the first
\* step has f_val = 0 and f_prev = +infinity, and terminate reports done on it
\* only when the step's result is not successful; with atol > 0, terminate
\* reports done on the state of the second step, which has f_val = f_prev = 0
\* and a zero diff.
C2_DoneAfterSecondStep ==
    ZeroAtY0 =>
        /\ Judged(1) => /\ state.f_val = 0
                        /\ state.f_prev = Inf
                        /\ term.done <=> state.result # "successful"
        /\ (Judged(2) /\ solver.tol.anum > 0) =>
                        /\ term.done
                        /\ state.f_val = 0
                        /\ state.f_prev = 0
                        /\ AllZero(state.diff)

C2_Witness ==
    /\ ZeroAtY0
    /\ nsteps = 2
    /\ pc = "done"
    /\ term.result = "successful"
    /\ state_in.f_prev = Inf

\* terminate has reported done with status successful on the current (y, state)
Converged == pc = "done" /\ term.done /\ term.result = "successful"

\* C3 as stated: whenever terminate reports done with status successful,
\* calling step again on the same y and state yields a zero diff.
C3_AsStated ==
    Converged =>
        \A sol \in LineSols(solver, fn, y, args, state) :
            AllZero(step(fn, y, args, state, sol).new_state.diff)

\* C3 (amended): whenever terminate reports done with status successful,
\* calling step again on the same y and state yields diff = new_y - y, which
\* is the zero update when the residual at y is exactly zero and the step's
\* result is successful (a y that converged only within the tolerances may
\* still move).
C3_NoOpAtExactRoot ==
    Converged =>
        \A sol \in LineSols(solver, fn, y, args, state) :
            LET out == step(fn, y, args, state, sol)
            IN  /\ out.new_state.diff = VSub(sol.value, y)
                /\ (AllZero(fn_residual(fn, y, args))
                      /\ out.new_state.result = "successful")
                   => (AllZero(out.new_state.diff) /\ out.new_y = y)

C3_Witness ==
    /\ Converged
    /\ AllZero(fn_residual(fn, y, args))
    /\ ~AllZero(y)
    /\ \E sol \in LineSols(solver, fn, y, args, state) :
          AllZero(step(fn, y, args, state, sol).new_state.diff)

\* C4: the aux returned by step is the aux the line search produced at its
\* accepted point new_y, not the aux of the linearization of fn at the input y.
C4_AuxOfAcceptedPoint ==
    nsteps >= 1 => /\ aux = line_sol.aux
                   /\ aux = fn_aux(fn, y, args)

\* C5: the result step stores is successful when the line search's status is
\* nonlinear_max_steps_reached and the line search's status otherwise, and
\* nothing is raised out of step.
C5_ResultDowngrade ==
    /\ nsteps >= 1 =>
        /\ line_sol.result = "nonlinear_max_steps_reached"
              => state.result = "successful"
        /\ line_sol.result # "nonlinear_max_steps_reached"
              => state.result = line_sol.result
        /\ line_sol.raised = "none"
    /\ pc = "body" =>
        \A sol \in LineSols(solver, fn, y, args, state), r \in RESULTS :
            step(fn, y, args, state, [sol EXCEPT !.result = r]).new_state.result
                = (IF r = "nonlinear_max_steps_reached" THEN "successful" ELSE r)

C5_Witness ==
    /\ nsteps >= 1
    /\ line_sol.result = "nonlinear_max_steps_reached"
    /\ state.result = "successful"

\* C6: on a state whose result is not successful terminate reports done with
\* that status whatever diff, f_val and f_prev are, and the driver takes no
\* further step.
C6_FailFast ==
    state.result # "successful" =>
        /\ \A d \in {state.diff, Zeros(y), tree_full_like(y, Inf),
                     tree_full_like(y, NaN)},
              f \in {state.f_val, 0, Inf, NaN},
              g \in {state.f_prev, 0, Inf, NaN} :
              terminate(solver, y, [state EXCEPT !.diff = d, !.f_val = f,
                                                 !.f_prev = g])
                  = [done |-> TRUE, result |-> state.result]
        /\ pc # "body"
        /\ pc = "done" => term = [done |-> TRUE, result |-> state.result]

C6_Witness == pc = "done" /\ state.result = "singular" /\ nsteps = 1

\* the descent hands the Newton direction newton on as -step_size * newton,
\* normalised first when a norm is configured
Scaled(call, newton) ==
    VScale(FNeg(call.step_size),
           IF call.norm = "none" THEN newton
           ELSE [i \in 1..Len(newton) |-> FDiv(newton[i], max_norm(newton))])

Unavailable(opt) == opt.tag \in {"absent", "none"}

\* C7: NewtonDescent with neither operator nor operator_inv available (key
\* absent or None) raises a configuration error for every vector and step
\* size and returns nothing; with operator_inv available it applies
\* operator_inv to the vector, without a linear solve, and the status is
\* successful.
C7_DescentOptions ==
    desc_call.called =>
        LET o == desc_call.options
            out == desc_call.out
        IN  /\ (Unavailable(o.operator) /\ Unavailable(o.operator_inv)) =>
                   /\ out.raised \in {"ValueError", "KeyError"}
                   /\ o.vector.tag = "some" => out.raised = "ValueError"
                   /\ out.value = NoValue
                   /\ out.result = "none"
            /\ (~Unavailable(o.operator_inv) /\ o.vector.tag = "some") =>
                   /\ out.raised = "none"
                   /\ out.result = "successful"
                   /\ ~out.solved
                   /\ out.value = Scaled(desc_call,
                                         mv(o.operator_inv.val, o.vector.val))

C7_Witness ==
    /\ desc_call.called
    /\ desc_call.options.operator_inv.tag = "some"
    /\ desc_call.options.operator.tag = "some"
    /\ desc_call.options.vector.tag = "some"
    /\ desc_call.out.result = "successful"
    /\ ~desc_call.out.solved

\* C8: init returns step_size = 1, diff = all-infinity of the shape of y,
\* f_val = f_prev = +infinity, result = successful, for every y and args and
\* without evaluating fn.
C8_InitState ==
    (nsteps = 0 /\ pc # "constructed") =>
        /\ state.step_size = Den
        /\ Len(state.diff) = Len(y)
        /\ \A i \in 1..Len(y) : state.diff[i] = Inf
        /\ state.f_val = Inf
        /\ state.f_prev = Inf
        /\ state.result = "successful"
        /\ fn_evals = 0
        /\ y = y0

C8_Witness == nsteps = 0 /\ pc = "cond" /\ Len(y) = 3 /\ state.f_val = Inf

\* C9: every step stores diff = new_y - y, f_val = the sum of squared
\* residuals at its input y, f_prev = the input state's f_val and step_size =
\* the line search's next_init, and hands the line search as init_step_size
\* the next_init of the previous step's line search (1 in the first step).
C9_StateThreading ==
    [][nsteps' = nsteps + 1 =>
          /\ state'.diff = VSub(y', y)
          /\ state'.f_val = sum_squares(fn_residual(fn, y, args))
          /\ state'.f_prev = state.f_val
          /\ state'.step_size = line_sol'.next_init
          /\ ls_opts'.init_step_size =
                 (IF nsteps = 0 THEN Den ELSE line_sol.next_init)]_vars

C9_Witness ==
    /\ nsteps >= 2
    /\ ls_opts.init_step_size # Den
    /\ state.step_size # ls_opts.init_step_size
    /\ state.f_prev # Inf
    /\ y # y_in

\* C10: while every step's result is successful, terminate does not report
\* done on the state of init nor on the state of the first step.
C10_NotDoneBeforeSecondStep ==
    (pc # "constructed" /\ nsteps < 2 /\ state.result = "successful") =>
        /\ ~terminate(solver, y, state).done
        /\ pc # "done"

C10_Witness ==
    /\ Judged(1)
    /\ state.result = "successful"
    /\ AllZero(state.diff)
    /\ state.f_val = 0
    /\ state.f_prev = Inf

====
